---- MODULE Spec2Model ----
(***************************************************************************)
(* Deterministic clock of the Boa engine (core/engine/src/context/time.rs) *)
(* and its copy of the global time slot (utils/monotonic_time/src/lib.rs). *)
(*                                                                         *)
(* TLC has 32-bit integers, so the integer widths and the unit factors of  *)
(* the program are scaled down.  Every width and factor is a definition,   *)
(* and the relations between them that the program relies on are kept:     *)
(*    NANOS_PER_SEC = MILLIS_PER_SEC * NANOS_PER_MILLI                     *)
(*    NANOS_PER_SEC < U32      (10^9 < 2^32: a u32 holds more than 1 s)    *)
(*    (MILLIS_PER_SEC - 1) * NANOS_PER_MILLI < U32                         *)
(*    U64 * NANOS_PER_SEC < U128   (2^64 * 10^9 < 2^128: a u128 of         *)
(*                                  nanoseconds can exceed u64 seconds)    *)
(* Arithmetic of the program is written with its width: wrapping_add and   *)
(* `as` casts are % 2^w, a plain `+` on integers panics when the build has *)
(* overflow checks (debug profile) and wraps when it has none (release).   *)
(***************************************************************************)
EXTENDS Integers, Sequences, FiniteSets, TLC

(* ------------------------------ scaling ------------------------------- *)

\* number of bits of the model's u32, u64 and u128
Bits32 == 3
Bits64 == 4
Bits128 == 8
\* the model's 1_000 (milliseconds per second) and 1_000_000 (ns per ms)
MILLIS_PER_SEC == 2
NANOS_PER_MILLI == 2

U32 == 2 ^ Bits32
U64 == 2 ^ Bits64
U128 == 2 ^ Bits128
NANOS_PER_SEC == MILLIS_PER_SEC * NANOS_PER_MILLI

\* the two executors of the replicated state machine; each runs its own
\* build of the program over the same sequence of operations
Executors == {"A", "B"}

(* ------------------------------ Option<T> ------------------------------ *)

None == << >>
Some(x) == << x >>
IsSome(o) == Len(o) = 1
Unwrap(o) == o[1]

(* ------------------------- core::time::Duration ------------------------ *)

\* Duration::new(secs, nanos): nanoseconds above one second carry into the
\* seconds; panics (None) when the carry overflows the u64 seconds.
DurationNew(secs, nanos) ==
    LET carry == nanos \div NANOS_PER_SEC
    IN  IF secs + carry >= U64
        THEN None
        ELSE Some([secs |-> secs + carry, nanos |-> nanos % NANOS_PER_SEC])

\* Duration::as_nanos(): u128, secs * 10^9 + nanos
as_nanos(d) == d.secs * NANOS_PER_SEC + d.nanos

\* Duration - Duration with wrapping_sub on the seconds
DurationSub_wrapping(a, b) ==
    LET borrow == IF a.nanos >= b.nanos THEN 0 ELSE 1
    IN  DurationNew((a.secs - b.secs - borrow) % U64,
                    (a.nanos + NANOS_PER_SEC - b.nanos) % NANOS_PER_SEC)

\* Duration - Duration: checked_sub(..).expect("overflow when subtracting
\* durations"), None when it panics
DurationSub(a, b) ==
    IF a.secs < b.secs
    THEN None                                  \* secs.checked_sub(rhs.secs)
    ELSE IF a.nanos >= b.nanos
    THEN DurationNew(a.secs - b.secs, a.nanos - b.nanos)
    ELSE IF a.secs - b.secs = 0
    THEN None                                  \* secs.checked_sub(1)
    ELSE DurationNew(a.secs - b.secs - 1, a.nanos + NANOS_PER_SEC - b.nanos)

\* Duration + Duration that forgets the carry of the nanoseconds
DurationAdd_nocarry(a, b) ==
    IF a.secs + b.secs >= U64
    THEN None
    ELSE DurationNew(a.secs + b.secs, (a.nanos + b.nanos) % NANOS_PER_SEC)

\* Duration + Duration: checked_add(..).expect("overflow when adding
\* durations"), None when it panics
DurationAdd(a, b) ==
    IF a.secs + b.secs >= U64
    THEN None                                  \* secs.checked_add(rhs.secs)
    ELSE IF a.nanos + b.nanos < NANOS_PER_SEC
    THEN DurationNew(a.secs + b.secs, a.nanos + b.nanos)
    ELSE IF a.secs + b.secs + 1 >= U64
    THEN None                                  \* secs.checked_add(1)
    ELSE DurationNew(a.secs + b.secs + 1, a.nanos + b.nanos - NANOS_PER_SEC)

(* --------------------------- global time slot -------------------------- *)

VARIABLES
    GLOBAL_TIME_NS,   \* [Executors -> Option<u128>], the published base
    GLOBAL_BUMP,      \* [Executors -> u64], observations since publication
    overflow_checks,  \* [Executors -> BOOLEAN], the build profile
    panicked,         \* [Executors -> BOOLEAN], the program has terminated
    ret,              \* [Executors -> Option<JsInstant>], the last value
                      \* StdClock::now() returned since the slot was written
    op,               \* the name of the last operation
    published,        \* history: argument of the last set_time_nanos
    calls,            \* history: now() calls since the slot was written
    prior,            \* history: how the last armed episode ended ("rearm"
                      \* or "clear") and the now() calls made in it
    pc,               \* "idle" between entry points, "entry" inside one
    FIXED,            \* [Executors -> Option<u64>], the FixedClock's counter
    fret,             \* [Executors -> Option<JsInstant>], the last value
                      \* FixedClock::now() returned
    fsum,             \* history: from_millis argument plus all forwarded
    MT_TIME_NS,       \* [Executors -> Option<u128>], GLOBAL_TIME_NS of the
                      \* monotonic_time crate
    MT_BUMP,          \* [Executors -> u64], GLOBAL_BUMP of monotonic_time
    mt_panicked,      \* [Executors -> BOOLEAN], monotonic_time has panicked
    mt_ret,           \* [Executors -> Option<Duration>], the last value
                      \* monotonic_time's next_duration() returned since
                      \* its slot was written
    val               \* the last operation on the value types and its result

mtVars == << MT_TIME_NS, MT_BUMP, mt_panicked, mt_ret >>
slotVars == << GLOBAL_TIME_NS, GLOBAL_BUMP, ret, published, calls, prior,
               mtVars >>
fixedVars == << FIXED, fret, fsum >>
vars == << GLOBAL_TIME_NS, GLOBAL_BUMP, overflow_checks, panicked, ret, op,
           published, calls, prior, pc, FIXED, fret, fsum, val, MT_TIME_NS,
           MT_BUMP, mt_panicked, mt_ret >>

\* set_time_nanos(nanos): the slot after the call
set_time_nanos(time_ns, bump, nanos) == [time_ns |-> Some(nanos), bump |-> 0]

\* clear_time() that leaves the counter as it is
clear_time_keep_bump(time_ns, bump) == [time_ns |-> None, bump |-> bump]

\* clear_time(): the slot after the call
clear_time(time_ns, bump) == [time_ns |-> None, bump |-> 0]

\* next_duration() from line 55 on, the base having been read: the slot
\* after the call, whether the call panicked, and the Duration it returned
\* (None when it panicked)
next_duration_from(time_ns, base, bump, checks) ==
    LET bump1 == (bump + 1) % U64                \* bump.wrapping_add(1)
        sum == base + bump                       \* base + bump as u128
    IN  IF sum >= U128 /\ checks
        THEN \* attempt to add with overflow
             [time_ns |-> time_ns, bump |-> bump1, panic |-> TRUE,
              ret |-> None]
        ELSE LET total == sum % U128
                 secs == (total \div NANOS_PER_SEC) % U64        \* as u64
                 nanos == (total % NANOS_PER_SEC) % U32          \* as u32
                 d == DurationNew(secs, nanos)
             IN  [time_ns |-> time_ns, bump |-> bump1,
                  panic |-> ~IsSome(d), ret |-> d]

\* next_duration() with unwrap_or(0) in the place of expect(..)
next_duration_or_zero(time_ns, bump, checks) ==
    next_duration_from(time_ns, IF IsSome(time_ns) THEN Unwrap(time_ns) ELSE 0,
                       bump, checks)

\* next_duration() with saturating_add in the place of wrapping_add
next_duration_saturating(time_ns, bump, checks) ==
    IF ~IsSome(time_ns)
    THEN [time_ns |-> time_ns, bump |-> bump, panic |-> TRUE, ret |-> None]
    ELSE [next_duration_from(time_ns, Unwrap(time_ns), bump, checks)
            EXCEPT !.bump = IF bump + 1 >= U64 THEN bump ELSE bump + 1]

\* next_duration() that counts the call before it reads the base
next_duration_bump_first(time_ns, bump, checks) ==
    IF ~IsSome(time_ns)
    THEN [time_ns |-> time_ns, bump |-> (bump + 1) % U64, panic |-> TRUE,
          ret |-> None]
    ELSE next_duration_from(time_ns, Unwrap(time_ns), bump, checks)

\* next_duration()
next_duration(time_ns, bump, checks) ==
    IF ~IsSome(time_ns)
    THEN \* .expect(..) on None: panics before the counter is read
         [time_ns |-> time_ns, bump |-> bump, panic |-> TRUE, ret |-> None]
    ELSE next_duration_from(time_ns, Unwrap(time_ns), bump, checks)

\* JsInstant::new_unchecked(inner): the wrapper adds nothing to the Duration
new_unchecked(inner) == inner

\* JsInstant::nanos_since_epoch()
nanos_since_epoch(i) == as_nanos(i)

(* ------------------------------- inputs -------------------------------- *)

\* block times handed to set_time_nanos: small ones, the last ones whose
\* seconds fit a u64, the first ones whose seconds do not, and the last u128
Bases == {0, 1, NANOS_PER_SEC - 1, NANOS_PER_SEC,
          U64 * NANOS_PER_SEC - 2, U64 * NANOS_PER_SEC - 1,
          U64 * NANOS_PER_SEC, U64 * NANOS_PER_SEC + 1,
          U128 - 2, U128 - 1}

\* now() calls followed in one episode: enough to wrap the u64 counter
MaxCalls == U64 + 2

\* every Duration, and so every JsDuration and JsInstant
Durations == [secs : 0 .. U64 - 1, nanos : 0 .. NANOS_PER_SEC - 1]

ZERO == [secs |-> 0, nanos |-> 0]
NoVal == [op |-> "none", a |-> ZERO, b |-> ZERO, res |-> None]

Init ==
    /\ GLOBAL_TIME_NS = [e \in Executors |-> None]
    /\ GLOBAL_BUMP = [e \in Executors |-> 0]
    /\ overflow_checks \in [Executors -> BOOLEAN]
    /\ panicked = [e \in Executors |-> FALSE]
    /\ ret = [e \in Executors |-> None]
    /\ op = "start"
    /\ published = None
    /\ calls = 0
    /\ prior = [kind |-> "start", k |-> 0]
    /\ pc = "idle"
    /\ FIXED = [e \in Executors |-> None]
    /\ fret = [e \in Executors |-> None]
    /\ fsum = None
    /\ val = NoVal
    /\ MT_TIME_NS = [e \in Executors |-> None]
    /\ MT_BUMP = [e \in Executors |-> 0]
    /\ mt_panicked = [e \in Executors |-> FALSE]
    /\ mt_ret = [e \in Executors |-> None]

Running == \E e \in Executors : ~panicked[e]

\* the slot of the running executors holds a base
Armed == \E e \in Executors : ~panicked[e] /\ IsSome(GLOBAL_TIME_NS[e])

(* ----------------- operations on the global time slot ------------------ *)

\* set_time_nanos(n) on every executor that still runs
SetTimeNanosOp(n) ==
    /\ Running
    /\ GLOBAL_TIME_NS' = [e \in Executors |->
           IF panicked[e] THEN GLOBAL_TIME_NS[e]
           ELSE set_time_nanos(GLOBAL_TIME_NS[e], GLOBAL_BUMP[e], n).time_ns]
    /\ GLOBAL_BUMP' = [e \in Executors |->
           IF panicked[e] THEN GLOBAL_BUMP[e]
           ELSE set_time_nanos(GLOBAL_TIME_NS[e], GLOBAL_BUMP[e], n).bump]
    /\ ret' = [e \in Executors |-> IF panicked[e] THEN ret[e] ELSE None]
    /\ op' = "set_time_nanos"
    /\ published' = Some(n)
    /\ calls' = 0
    /\ prior' = IF Armed THEN [kind |-> "rearm", k |-> calls] ELSE prior
    /\ UNCHANGED << overflow_checks, panicked, fixedVars, val >>

\* clear_time() on every executor that still runs
ClearTimeOp ==
    /\ Running
    /\ GLOBAL_TIME_NS' = [e \in Executors |->
           IF panicked[e] THEN GLOBAL_TIME_NS[e]
           ELSE clear_time(GLOBAL_TIME_NS[e], GLOBAL_BUMP[e]).time_ns]
    /\ GLOBAL_BUMP' = [e \in Executors |->
           IF panicked[e] THEN GLOBAL_BUMP[e]
           ELSE clear_time(GLOBAL_TIME_NS[e], GLOBAL_BUMP[e]).bump]
    /\ ret' = [e \in Executors |-> IF panicked[e] THEN ret[e] ELSE None]
    /\ op' = "clear_time"
    /\ calls' = 0
    /\ prior' = IF Armed THEN [kind |-> "clear", k |-> calls] ELSE prior
    /\ UNCHANGED << overflow_checks, panicked, published, fixedVars, val >>

\* StdClock::now() on every executor that still runs
StdClockNowOp ==
    /\ Running
    /\ calls < MaxCalls
    /\ LET r == [e \in Executors |->
                  next_duration(GLOBAL_TIME_NS[e], GLOBAL_BUMP[e],
                                overflow_checks[e])]
       IN  /\ GLOBAL_TIME_NS' = [e \in Executors |->
                  IF panicked[e] THEN GLOBAL_TIME_NS[e] ELSE r[e].time_ns]
           /\ GLOBAL_BUMP' = [e \in Executors |->
                  IF panicked[e] THEN GLOBAL_BUMP[e] ELSE r[e].bump]
           /\ panicked' = [e \in Executors |-> panicked[e] \/ r[e].panic]
           /\ ret' = [e \in Executors |->
                  IF panicked[e] THEN ret[e]
                  ELSE IF r[e].panic THEN None
                  ELSE Some(new_unchecked(Unwrap(r[e].ret)))]
    /\ op' = "now"
    /\ calls' = calls + 1
    /\ UNCHANGED << overflow_checks, published, prior, fixedVars, val >>

\* any caller: the three operations in any order
SetTimeNanos(n) == SetTimeNanosOp(n) /\ UNCHANGED << pc, mtVars >>
ClearTime == ClearTimeOp /\ UNCHANGED << pc, mtVars >>
StdClockNow == StdClockNowOp /\ UNCHANGED << pc, mtVars >>

Next ==
    \/ \E n \in Bases : SetTimeNanos(n)
    \/ ClearTime
    \/ StdClockNow

Spec == Init /\ [][Next]_vars

\* callers that obey the entry-point protocol: set_time_nanos on entry,
\* clear_time on exit, one entry point at a time
EntryPointEnter(n) ==
    pc = "idle" /\ SetTimeNanosOp(n) /\ pc' = "entry" /\ UNCHANGED mtVars
EntryPointNow == pc = "entry" /\ StdClockNowOp /\ UNCHANGED << pc, mtVars >>
EntryPointExit ==
    pc = "entry" /\ ClearTimeOp /\ pc' = "idle" /\ UNCHANGED mtVars

NextProtocol ==
    \/ \E n \in Bases : EntryPointEnter(n)
    \/ EntryPointNow
    \/ EntryPointExit

SpecProtocol == Init /\ [][NextProtocol]_vars

(* ------------------- the monotonic_time crate's slot ------------------- *)

\* monotonic_time::set_time_nanos that leaves the counter as it is
mt_set_time_nanos_keep_bump(time_ns, bump, nanos) ==
    [time_ns |-> Some(nanos), bump |-> bump]

\* monotonic_time::set_time_nanos(nanos): the slot after the call
mt_set_time_nanos(time_ns, bump, nanos) ==
    [time_ns |-> Some(nanos), bump |-> 0]

\* monotonic_time::clear_time(): the slot after the call
mt_clear_time(time_ns, bump) == [time_ns |-> None, bump |-> 0]

\* monotonic_time::next_duration(): the slot after the call, whether the
\* call panicked, and the Duration it returned (None when it panicked)
mt_next_duration(time_ns, bump, checks) ==
    IF ~IsSome(time_ns)
    THEN \* .expect(..) on None
         [time_ns |-> time_ns, bump |-> bump, panic |-> TRUE, ret |-> None]
    ELSE LET base == Unwrap(time_ns)
             total == base + bump                 \* base + bump as u128
             secs == ((total % U128) \div NANOS_PER_SEC) % U64   \* as u64
             nanos == ((total % U128) % NANOS_PER_SEC) % U32     \* as u32
             d == DurationNew(secs, nanos)
         IN  IF total >= U128 /\ checks
             THEN \* attempt to add with overflow
                  [time_ns |-> time_ns, bump |-> (bump + 1) % U64,
                   panic |-> TRUE, ret |-> None]
             ELSE [time_ns |-> time_ns,
                   bump |-> (bump + 1) % U64,     \* bump.wrapping_add(1)
                   panic |-> ~IsSome(d), ret |-> d]

\* the same operation on the slot of monotonic_time
MtSetTimeNanosOp(n) ==
    /\ MT_TIME_NS' = [e \in Executors |->
           IF mt_panicked[e] THEN MT_TIME_NS[e]
           ELSE mt_set_time_nanos(MT_TIME_NS[e], MT_BUMP[e], n).time_ns]
    /\ MT_BUMP' = [e \in Executors |->
           IF mt_panicked[e] THEN MT_BUMP[e]
           ELSE mt_set_time_nanos(MT_TIME_NS[e], MT_BUMP[e], n).bump]
    /\ mt_ret' = [e \in Executors |->
           IF mt_panicked[e] THEN mt_ret[e] ELSE None]
    /\ UNCHANGED mt_panicked

MtClearTimeOp ==
    /\ MT_TIME_NS' = [e \in Executors |->
           IF mt_panicked[e] THEN MT_TIME_NS[e]
           ELSE mt_clear_time(MT_TIME_NS[e], MT_BUMP[e]).time_ns]
    /\ MT_BUMP' = [e \in Executors |->
           IF mt_panicked[e] THEN MT_BUMP[e]
           ELSE mt_clear_time(MT_TIME_NS[e], MT_BUMP[e]).bump]
    /\ mt_ret' = [e \in Executors |->
           IF mt_panicked[e] THEN mt_ret[e] ELSE None]
    /\ UNCHANGED mt_panicked

MtNextDurationOp ==
    LET r == [e \in Executors |->
                mt_next_duration(MT_TIME_NS[e], MT_BUMP[e],
                                 overflow_checks[e])]
    IN  /\ MT_TIME_NS' = [e \in Executors |->
               IF mt_panicked[e] THEN MT_TIME_NS[e] ELSE r[e].time_ns]
        /\ MT_BUMP' = [e \in Executors |->
               IF mt_panicked[e] THEN MT_BUMP[e] ELSE r[e].bump]
        /\ mt_panicked' = [e \in Executors |-> mt_panicked[e] \/ r[e].panic]
        /\ mt_ret' = [e \in Executors |->
               IF mt_panicked[e] THEN mt_ret[e] ELSE r[e].ret]

\* one sequence of operations applied to both implementations of the slot
BothSetTimeNanos(n) ==
    SetTimeNanosOp(n) /\ MtSetTimeNanosOp(n) /\ UNCHANGED pc
BothClearTime == ClearTimeOp /\ MtClearTimeOp /\ UNCHANGED pc
BothNextDuration == StdClockNowOp /\ MtNextDurationOp /\ UNCHANGED pc

NextEquiv ==
    \/ \E n \in Bases : BothSetTimeNanos(n)
    \/ BothClearTime
    \/ BothNextDuration

SpecEquiv == Init /\ [][NextEquiv]_vars

(* ------------------------------ FixedClock ------------------------------ *)

\* FixedClock::from_millis(millis): the counter of the new clock
from_millis(millis) == millis

\* FixedClock::forward(millis): `+=` on the u64 counter
forward(counter, millis, checks) ==
    LET sum == counter + millis
    IN  IF sum >= U64 /\ checks
        THEN [counter |-> counter, panic |-> TRUE]
        ELSE [counter |-> sum % U64, panic |-> FALSE]

\* FixedClock::now(): None when Duration::new panics
FixedClock_now(millis) ==
    DurationNew(millis \div MILLIS_PER_SEC,
                ((millis % MILLIS_PER_SEC) * NANOS_PER_MILLI) % U32)

\* the total of from_millis and forward followed by the model
MaxFixedSum == 2 * U64

FixedClockFromMillis(m) ==
    /\ Running
    /\ fsum = None
    /\ FIXED' = [e \in Executors |->
           IF panicked[e] THEN FIXED[e] ELSE Some(from_millis(m))]
    /\ fsum' = Some(m)
    /\ op' = "from_millis"
    /\ UNCHANGED << slotVars, overflow_checks, panicked, pc, fret, val >>

FixedClockForward(d) ==
    /\ Running
    /\ IsSome(fsum)
    /\ Unwrap(fsum) + d <= MaxFixedSum
    /\ LET r == [e \in Executors |->
                  IF panicked[e] THEN [counter |-> 0, panic |-> TRUE]
                  ELSE forward(Unwrap(FIXED[e]), d, overflow_checks[e])]
       IN  /\ FIXED' = [e \in Executors |->
                  IF panicked[e] THEN FIXED[e] ELSE Some(r[e].counter)]
           /\ panicked' = [e \in Executors |-> r[e].panic]
    /\ fsum' = Some(Unwrap(fsum) + d)
    /\ op' = "forward"
    /\ UNCHANGED << slotVars, overflow_checks, pc, fret, val >>

\* FixedClock::now() that counts its calls in GLOBAL_BUMP
FixedClockNow_bump ==
    /\ Running
    /\ IsSome(fsum)
    /\ LET r == [e \in Executors |->
                  IF panicked[e] THEN None
                  ELSE FixedClock_now(Unwrap(FIXED[e]))]
       IN  /\ fret' = [e \in Executors |->
                  IF panicked[e] THEN fret[e]
                  ELSE IF IsSome(r[e]) THEN Some(new_unchecked(Unwrap(r[e])))
                  ELSE None]
           /\ panicked' = [e \in Executors |-> panicked[e] \/ ~IsSome(r[e])]
    /\ GLOBAL_BUMP' = [e \in Executors |->
           IF panicked[e] THEN GLOBAL_BUMP[e] ELSE (GLOBAL_BUMP[e] + 1) % U64]
    /\ op' = "fixed_now"
    /\ UNCHANGED << GLOBAL_TIME_NS, ret, published, calls, prior, mtVars,
                    overflow_checks, pc, FIXED, fsum, val >>

FixedClockNow ==
    /\ Running
    /\ IsSome(fsum)
    /\ LET r == [e \in Executors |->
                  IF panicked[e] THEN None
                  ELSE FixedClock_now(Unwrap(FIXED[e]))]
       IN  /\ fret' = [e \in Executors |->
                  IF panicked[e] THEN fret[e]
                  ELSE IF IsSome(r[e]) THEN Some(new_unchecked(Unwrap(r[e])))
                  ELSE None]
           /\ panicked' = [e \in Executors |-> panicked[e] \/ ~IsSome(r[e])]
    /\ op' = "fixed_now"
    /\ UNCHANGED << slotVars, overflow_checks, pc, FIXED, fsum, val >>

NextFixed ==
    \/ \E m \in 0 .. U64 - 1 : FixedClockFromMillis(m)
    \/ \E d \in 0 .. U64 - 1 : FixedClockForward(d)
    \/ FixedClockNow

SpecFixed == Init /\ [][NextFixed]_vars

\* a program that uses both clocks, in any interleaving
MaxCallsBoth == 2
BasesBoth == {0, U128 - 1}

NextBoth ==
    \/ \E n \in BasesBoth : SetTimeNanos(n)
    \/ ClearTime
    \/ calls < MaxCallsBoth /\ StdClockNow
    \/ \E m \in {0, 1} : FixedClockFromMillis(m)
    \/ IsSome(fsum) /\ Unwrap(fsum) < U64 /\ FixedClockForward(U64 - 1)
    \/ FixedClockNow

SpecBoth == Init /\ [][NextBoth]_vars

(* ----------------------- JsInstant and JsDuration ----------------------- *)

\* JsInstant::new that drops the whole seconds of nanos
JsInstant_new_nocarry(secs, nanos) ==
    Some([secs |-> secs, nanos |-> nanos % NANOS_PER_SEC])

\* JsInstant::new(secs, nanos): None when Duration::new panics
JsInstant_new(secs, nanos) ==
    LET inner == DurationNew(secs, nanos)
    IN  IF IsSome(inner) THEN Some(new_unchecked(Unwrap(inner))) ELSE None

\* JsDuration - JsDuration, JsInstant - JsDuration, JsInstant - JsInstant
JsDuration_sub(a, b) == DurationSub(a, b)
JsInstant_sub_duration(a, b) == DurationSub(a, b)
JsInstant_sub(a, b) == DurationSub(a, b)

\* JsDuration + JsDuration, JsInstant + JsDuration
JsDuration_add(a, b) == DurationAdd(a, b)
JsInstant_add_duration(a, b) == DurationAdd(a, b)

\* Duration::from_millis(millis)
Duration_from_millis(millis) ==
    [secs |-> millis \div MILLIS_PER_SEC,
     nanos |-> (millis % MILLIS_PER_SEC) * NANOS_PER_MILLI]

\* Duration::as_millis(): u128
Duration_as_millis(d) == d.secs * MILLIS_PER_SEC + d.nanos \div NANOS_PER_MILLI

\* JsDuration::from_millis(millis)
JsDuration_from_millis(millis) == Duration_from_millis(millis)

\* JsDuration::as_millis() that returns the whole seconds only
JsDuration_as_millis_secs(d) == (d.secs * MILLIS_PER_SEC) % U64

\* JsDuration::as_millis(): self.inner.as_millis() as u64
JsDuration_as_millis(d) == Duration_as_millis(d) % U64

\* JsInstant::millis_since_epoch(): self.inner.as_millis() as u64
millis_since_epoch(i) == Duration_as_millis(i) % U64

\* each operation is applied once, to operands of the caller's choice
JsInstantNew ==
    /\ val = NoVal
    /\ \E secs \in 0 .. U64 - 1, nanos \in 0 .. U32 - 1 :
          val' = [op |-> "JsInstant::new",
                  a |-> [secs |-> secs, nanos |-> nanos], b |-> ZERO,
                  res |-> JsInstant_new(secs, nanos)]
    /\ UNCHANGED << slotVars, fixedVars, overflow_checks, panicked, op, pc >>

JsDurationSub ==
    /\ val = NoVal
    /\ \E a, b \in Durations :
          val' = [op |-> "JsDuration - JsDuration", a |-> a, b |-> b,
                  res |-> JsDuration_sub(a, b)]
    /\ UNCHANGED << slotVars, fixedVars, overflow_checks, panicked, op, pc >>

JsInstantSubDuration ==
    /\ val = NoVal
    /\ \E a, b \in Durations :
          val' = [op |-> "JsInstant - JsDuration", a |-> a, b |-> b,
                  res |-> JsInstant_sub_duration(a, b)]
    /\ UNCHANGED << slotVars, fixedVars, overflow_checks, panicked, op, pc >>

JsInstantSub ==
    /\ val = NoVal
    /\ \E a, b \in Durations :
          val' = [op |-> "JsInstant - JsInstant", a |-> a, b |-> b,
                  res |-> JsInstant_sub(a, b)]
    /\ UNCHANGED << slotVars, fixedVars, overflow_checks, panicked, op, pc >>

\* b + (a - b) on Instants; a panic of the subtraction ends the evaluation
InstantRoundTrip ==
    /\ val = NoVal
    /\ \E a, b \in Durations :
          LET diff == JsInstant_sub(a, b)
          IN  val' = [op |-> "b + (a - b)", a |-> a, b |-> b,
                      res |-> IF IsSome(diff)
                              THEN JsInstant_add_duration(b, Unwrap(diff))
                              ELSE None]
    /\ UNCHANGED << slotVars, fixedVars, overflow_checks, panicked, op, pc >>

\* (d1 + d2) - d2 on Durations; a panic of the addition ends the evaluation
DurationRoundTrip ==
    /\ val = NoVal
    /\ \E d1, d2 \in Durations :
          LET sum == JsDuration_add(d1, d2)
          IN  val' = [op |-> "(d1 + d2) - d2", a |-> d1, b |-> d2,
                      res |-> IF IsSome(sum)
                              THEN JsDuration_sub(Unwrap(sum), d2)
                              ELSE None]
    /\ UNCHANGED << slotVars, fixedVars, overflow_checks, panicked, op, pc >>

\* JsDuration::from_millis(m).as_millis()
JsDurationFromMillis ==
    /\ val = NoVal
    /\ \E m \in 0 .. U64 - 1 :
          val' = [op |-> "from_millis(m).as_millis()", a |-> [millis |-> m],
                  b |-> JsDuration_from_millis(m),
                  res |-> Some(JsDuration_as_millis(
                                  JsDuration_from_millis(m)))]
    /\ UNCHANGED << slotVars, fixedVars, overflow_checks, panicked, op, pc >>

\* i.millis_since_epoch() of any Instant
JsInstantMillisSinceEpoch ==
    /\ val = NoVal
    /\ \E i \in Durations :
          val' = [op |-> "millis_since_epoch", a |-> i, b |-> ZERO,
                  res |-> Some(millis_since_epoch(i))]
    /\ UNCHANGED << slotVars, fixedVars, overflow_checks, panicked, op, pc >>

NextValues ==
    \/ JsDurationFromMillis
    \/ JsInstantMillisSinceEpoch
    \/ JsInstantNew
    \/ JsDurationSub
    \/ JsInstantSubDuration
    \/ JsInstantSub
    \/ InstantRoundTrip
    \/ DurationRoundTrip

SpecValues == Init /\ [][NextValues]_vars

(* ======================= properties of the clock ======================== *)

\* the call of this step is StdClock::now() and executor e makes it
NowBy(e) == op' = "now" /\ ~panicked[e]

\* executor e returns from the call of this step with the Instant of n ns
ReturnsNanos(e, n) ==
    /\ ~panicked'[e]
    /\ IsSome(ret'[e])
    /\ nanos_since_epoch(Unwrap(ret'[e])) = n

\* C1: within one armed episode every StdClock::now() returns an Instant
\* exactly 1 ns greater than the Instant the call before it returned.
C1_StrictlyMonotone ==
    [][\A e \in Executors :
          (NowBy(e) /\ IsSome(ret[e]))
          => ReturnsNanos(e, nanos_since_epoch(Unwrap(ret[e])) + 1)]_vars

\* C2: the first StdClock::now() after set_time_nanos(n) returns the Instant
\* whose nanos_since_epoch() is n, for every u128 n.
C2_BaseAnchoring ==
    [][\A e \in Executors :
          (NowBy(e) /\ op = "set_time_nanos")
          => ReturnsNanos(e, Unwrap(GLOBAL_TIME_NS[e]))]_vars

\* C3: StdClock::now() on an empty slot terminates the program and returns
\* no Instant, at the start as well as after clear_time(); a terminated
\* program returns nothing later either.
C3_FatalOnUnarmed ==
    [][\A e \in Executors :
          /\ (NowBy(e) /\ ~IsSome(GLOBAL_TIME_NS[e]))
             => (panicked'[e] /\ ret'[e] = None)
          /\ panicked[e] => (panicked'[e] /\ ret'[e] = ret[e])]_vars

\* C3 happens: a now() after clear_time(), a base having been published
\* before, has terminated the program.
C3_Witness ==
    \E e \in Executors :
       /\ op = "now" /\ panicked[e] /\ ~IsSome(GLOBAL_TIME_NS[e])
       /\ IsSome(published) /\ prior.kind = "clear" /\ prior.k > 0

\* C4: under the entry-point protocol the j-th now() of an entry point
\* armed with b returns b + j and no now() inside an entry point is fatal.
C4_EntryPointProtocol ==
    [][\A e \in Executors :
          (NowBy(e) /\ pc = "entry")
          => ReturnsNanos(e, Unwrap(published) + calls)]_vars

\* C5: the executors, given the same operations, return the same Instants
\* and terminate at the same step.
C5_DeterministicReplay ==
    \A e1, e2 \in Executors :
       panicked[e1] = panicked[e2] /\ ret[e1] = ret[e2]

\* C6: set_time_nanos(n2) on an armed slot makes the next now() return n2,
\* and leaves the slot as clear_time() followed by set_time_nanos(n2) does.
C6_ReArmResets ==
    [][\A e \in Executors :
          /\ (NowBy(e) /\ op = "set_time_nanos" /\ prior.kind = "rearm")
             => ReturnsNanos(e, Unwrap(published))
          /\ (op' = "set_time_nanos" /\ ~panicked[e]
                /\ IsSome(GLOBAL_TIME_NS[e]))
             => LET c == clear_time(GLOBAL_TIME_NS[e], GLOBAL_BUMP[e])
                    a == set_time_nanos(c.time_ns, c.bump,
                                        Unwrap(published'))
                IN  GLOBAL_TIME_NS'[e] = a.time_ns
                    /\ GLOBAL_BUMP'[e] = a.bump]_vars

\* C7: after an armed episode of k observations and clear_time(),
\* set_time_nanos(n) followed by now() returns n.
C7_ClearResets ==
    [][\A e \in Executors :
          (NowBy(e) /\ op = "set_time_nanos" /\ prior.kind = "clear")
          => ReturnsNanos(e, Unwrap(published))]_vars

\* C14: in every armed state StdClock::now() returns the Instant of
\* base + bump ns: the addition does not overflow and the split into
\* seconds and nanoseconds loses nothing.
C14_NowTotalWhileArmed ==
    [][\A e \in Executors :
          (NowBy(e) /\ IsSome(GLOBAL_TIME_NS[e]))
          => ReturnsNanos(e, Unwrap(GLOBAL_TIME_NS[e]) + GLOBAL_BUMP[e])]_vars

\* C15: every armed StdClock::now() increments the counter modulo 2^64 and
\* keeps the base; after 2^64 observations of one episode the counter is 0
\* and the slot is armed with the same base.
C15_BumpWraps ==
    /\ [][\A e \in Executors :
             (NowBy(e) /\ IsSome(GLOBAL_TIME_NS[e]))
             => /\ GLOBAL_BUMP'[e] = (GLOBAL_BUMP[e] + 1) % U64
                /\ GLOBAL_TIME_NS'[e] = GLOBAL_TIME_NS[e]]_vars
    /\ [](\A e \in Executors :
            (~panicked[e] /\ calls = U64 /\ IsSome(GLOBAL_TIME_NS[e]))
            => (GLOBAL_BUMP[e] = 0 /\ GLOBAL_TIME_NS[e] = published))

\* C15 happens: 2^64 observations were made in one episode
C15_Witness ==
    \E e \in Executors :
       /\ ~panicked[e] /\ op = "now" /\ calls = U64
       /\ IsSome(GLOBAL_TIME_NS[e]) /\ IsSome(ret[e])
       /\ GLOBAL_BUMP[e] = 0

\* C17: clear_time() runs in every state of a running program, leaves the
\* slot empty with bump 0, and changes nothing in a slot that is empty.
C17_ClearIdempotent ==
    /\ [](Running => ENABLED ClearTime)
    /\ [][\A e \in Executors :
             (op' = "clear_time" /\ ~panicked[e])
             => /\ ~panicked'[e]
                /\ GLOBAL_TIME_NS'[e] = None /\ GLOBAL_BUMP'[e] = 0
                /\ ~IsSome(GLOBAL_TIME_NS[e])
                     => (GLOBAL_TIME_NS'[e] = GLOBAL_TIME_NS[e]
                           /\ GLOBAL_BUMP'[e] = GLOBAL_BUMP[e])]_vars

\* C17 happens: an episode with observations was cleared
C17_Witness ==
    \E e \in Executors :
       /\ ~panicked[e] /\ op = "clear_time"
       /\ prior.kind = "clear" /\ prior.k > 1
       /\ ~IsSome(GLOBAL_TIME_NS[e]) /\ GLOBAL_BUMP[e] = 0

\* C18: an empty slot has bump 0 in every state, and a now() that finds
\* the slot empty leaves base and bump as they are.
C18_EmptySlotZeroBump ==
    /\ [](\A e \in Executors :
            ~IsSome(GLOBAL_TIME_NS[e]) => GLOBAL_BUMP[e] = 0)
    /\ [][\A e \in Executors :
             (NowBy(e) /\ ~IsSome(GLOBAL_TIME_NS[e]))
             => (GLOBAL_TIME_NS'[e] = GLOBAL_TIME_NS[e]
                   /\ GLOBAL_BUMP'[e] = GLOBAL_BUMP[e])]_vars

\* C18 happens: now() at the start, before any set_time_nanos, has
\* terminated the program
C18_Witness ==
    \E e \in Executors :
       /\ op = "now" /\ panicked[e] /\ published = None
       /\ ~IsSome(GLOBAL_TIME_NS[e]) /\ GLOBAL_BUMP[e] = 0

\* C19: after every operation the slot of monotonic_time equals the slot
\* of the engine, both have returned the same Duration and both have
\* panicked or neither has.
C19_SlotsEquivalent ==
    \A e \in Executors :
       /\ MT_TIME_NS[e] = GLOBAL_TIME_NS[e]
       /\ MT_BUMP[e] = GLOBAL_BUMP[e]
       /\ mt_panicked[e] = panicked[e]
       /\ mt_ret[e] = ret[e]

\* C19 happens: both counters have wrapped and both returned a Duration
C19_Witness ==
    \E e \in Executors :
       /\ op = "now" /\ calls = U64 + 1
       /\ IsSome(mt_ret[e]) /\ IsSome(ret[e])
       /\ MT_BUMP[e] = 1

(* ==================== properties of the value types ===================== *)

Subtractions ==
    {"JsDuration - JsDuration", "JsInstant - JsDuration",
     "JsInstant - JsInstant"}

\* C9: a subtraction whose result would be negative fails fatally or
\* returns zero; it returns no other value.
C9_SubtractionUnderflow ==
    (val.op \in Subtractions /\ as_nanos(val.a) < as_nanos(val.b))
    => (val.res = None \/ val.res = Some(ZERO))

\* C9 happens: an Instant minus a longer Duration of the same whole seconds
C9_Witness ==
    /\ val.op = "JsInstant - JsDuration"
    /\ val.a.secs = val.b.secs /\ val.a.secs > 0
    /\ val.a.nanos < val.b.nanos
    /\ val.res = None

C13_UnitProjection ==
    /\ val.op = "from_millis(m).as_millis()" => val.res = Some(val.a.millis)
    /\ (val.op = "JsInstant::new" /\ IsSome(val.res))
         => nanos_since_epoch(Unwrap(val.res))
              = val.a.secs * NANOS_PER_SEC + val.a.nanos

\* C13 happens: the largest u64 of milliseconds, with a part below a second
C13_Witness ==
    /\ val.op = "from_millis(m).as_millis()"
    /\ val.a.millis = U64 - 1
    /\ val.b.nanos > 0
    /\ val.res = Some(U64 - 1)

\* C16: i.millis_since_epoch() is floor(i.nanos_since_epoch() / 10^6) for
\* every Instant i, with no high bits lost.
C16_MillisFloor ==
    val.op = "millis_since_epoch"
    => val.res = Some(nanos_since_epoch(val.a) \div NANOS_PER_MILLI)

(* ===================== properties of the FixedClock ===================== *)

\* C10: the counter is from_millis' argument plus everything forwarded,
\* FixedClock::now() returns it as (c / 1000 s, (c % 1000) * 10^6 ns) and
\* leaves it unchanged.
C10_FixedClock ==
    /\ [](\A e \in Executors :
            IsSome(fsum) =>
              /\ ~panicked[e]
              /\ FIXED[e] = fsum
              /\ op = "fixed_now" =>
                    fret[e] = Some([secs |-> Unwrap(fsum) \div MILLIS_PER_SEC,
                                    nanos |-> (Unwrap(fsum) % MILLIS_PER_SEC)
                                                * NANOS_PER_MILLI]))
    /\ [][op' = "fixed_now" => FIXED' = FIXED]_vars

(* ================= properties of the two clocks together ================ *)

SlotOps == {"set_time_nanos", "clear_time", "now"}
FixedOps == {"from_millis", "forward", "fixed_now"}

\* C11: the FixedClock operations leave the time slot and the results of
\* StdClock unchanged, the time slot operations leave the FixedClock
\* unchanged; in every interleaving the state of each clock is the one its
\* own operations alone produce.
C11_FixedClockIsolation ==
    /\ [][((op' \in FixedOps) =>
             (GLOBAL_TIME_NS' = GLOBAL_TIME_NS /\ GLOBAL_BUMP' = GLOBAL_BUMP
                /\ ret' = ret))
          /\ ((op' \in SlotOps) => (FIXED' = FIXED /\ fret' = fret))]_vars
    /\ [](\A e \in Executors :
            (~panicked[e]) =>
              (/\ GLOBAL_BUMP[e] = calls % U64
               /\ (IsSome(fsum) => FIXED[e] = Some(Unwrap(fsum) % U64))))

\* C11 happens: both clocks have been used, the FixedClock last, between
\* two observations of the time slot
C11_Witness ==
    \E e \in Executors :
       /\ ~panicked[e] /\ op = "forward"
       /\ IsSome(ret[e]) /\ IsSome(fret[e])
       /\ GLOBAL_BUMP[e] > 0 /\ Unwrap(FIXED[e]) > 1

====
